---- MODULE Spec2Model ----
(***************************************************************************)
(* Model of pkg/syncslice.go: Slice[T], a mutex-guarded Go slice with an   *)
(* atomically updated length counter.                                      *)
(*                                                                         *)
(* Every access to shared memory made by a method is one step, so that the *)
(* lock-free readers (Get, GetUnsafe, Length, Range) interleave with the   *)
(* writers exactly where the code lets them.  The Go slice header is a     *)
(* (pointer, length) pair into a heap of backing arrays; the capacity of a *)
(* header is the size of the array it points to.  A reader that does not   *)
(* hold the lock loads the two header words in two steps, in either order, *)
(* which is what an unsynchronised load of a multi-word value can do, and  *)
(* a writer that replaces the header stores the two words in two steps, in *)
(* either order: the order is the compiler's choice.                       *)
(***************************************************************************)
EXTENDS Integers, Sequences, FiniteSets, TLC

\* ------------------------------------------------------------------ bounds
\* The longest store the callers build (by Append and SetSlice): MaxLen when
\* goroutines run concurrently, SeqLen when one goroutine runs alone, FairLen
\* where progress is checked.
MaxLen == 2
SeqLen == 4
FairLen == 1

\* The element values callers store; the code never inspects an element, so
\* two distinguishable values and the zero value of T are enough.
Values == {1, 2}
Zero == 0
VARIABLES
    mu,     \* s.mu: 0 when unlocked, else the goroutine holding it
    slice,  \* s.slice: the header [ptr, len]
    len,    \* s.len: the atomic counter
    heap,   \* the backing arrays, by identifier; 0 is the nil pointer
    th,     \* per goroutine: position in the method it runs, its arguments,
            \* its locals, its result, and what it has observed
    limit   \* the longest store the callers build; never changes

vars == <<mu, slice, len, heap, th, limit>>

Limit == limit
\* Indices a caller passes: below, inside, at and beyond the length.
Indexes == (0 - 1)..Limit
\* The sequences a caller passes to SetSlice.
Seqs == UNION {[1..n -> Values] : n \in 0..Limit}

\* ------------------------------------------------------ Go slice primitives
\* The array a pointer refers to.
ArrOf(h, p) == IF p = 0 THEN <<>> ELSE h[p]

\* The live elements of a header: s.slice[0:len(s.slice)].
ElemsOf(h, sl) == SubSeq(ArrOf(h, sl.ptr), 1, sl.len)

Contents == ElemsOf(heap, slice)

\* cap(s.slice)
Cap == Len(ArrOf(heap, slice.ptr))

\* make([]T, n): n zero values.
ZeroArr(n) == [k \in 1..n |-> Zero]

\* The capacity append gives a full slice that grows to hold `needed`.
GrowCap(old, needed) ==
    IF old = 0 THEN needed
    ELSE IF needed > 2 * old THEN needed ELSE 2 * old

\* Arrays the header or a slice held by a goroutine (a reader's copy of
\* s.slice, the copy GetSlice returned, the caller's own slice, the header a
\* writer is about to store) refers to.
RefsOf(sl, t) ==
    ({sl.ptr} \cup {t[u].hp : u \in DOMAIN t} \cup {t[u].np : u \in DOMAIN t}) \ {0}

\* The identifier the allocator hands out: one no one refers to.
FreshId == CHOOSE a \in DOMAIN heap :
    /\ a \notin RefsOf(slice, th)
    /\ \A b \in DOMAIN heap : b \notin RefsOf(slice, th) => a <= b

\* Array identifiers carry no meaning.  After every step the arrays still
\* referred to are renumbered 1, 2, ... in the order: the array of s.slice,
\* then the arrays held by goroutine 1, 2, ...; the others are reclaimed.
\* (goroutine u's held array before the array of the header u is storing).
Holds(r, p) == r.hp = p \/ r.np = p

KeyOf(sl, t, p) ==
    IF p = sl.ptr THEN 0
    ELSE LET u == CHOOSE w \in DOMAIN t :
                    /\ Holds(t[w], p)
                    /\ \A x \in DOMAIN t : Holds(t[x], p) => w <= x
         IN IF t[u].hp = p THEN 2 * u - 1 ELSE 2 * u

RankOf(sl, t, p) ==
    IF p = 0 THEN 0
    ELSE 1 + Cardinality({q \in RefsOf(sl, t) : KeyOf(sl, t, q) < KeyOf(sl, t, p)})

\* --------------------------------------------------------------- goroutines
Idle == [pc |-> "idle", op |-> "none", index |-> 0, value |-> Zero,
         seq |-> <<>>, f |-> "none", hp |-> 0, hl |-> 0, got |-> "none",
         i |-> 0, lim |-> 0, tmp |-> Zero, acc |-> <<>>, how |-> "none",
         ok |-> FALSE, rv |-> Zero, calls |-> 0, pre |-> <<>>, prelen |-> 0,
         obs |-> {}, keep |-> {}, log |-> <<>>, outer |-> "none",
         np |-> 0, nl |-> 0]

\* What a caller that keeps a record of its calls to the methods in r.keep
\* writes down when one of them exits.
Result(r) == [op |-> r.op, index |-> r.index, value |-> r.value, seq |-> r.seq,
              f |-> r.f, how |-> r.how, ok |-> r.ok, rv |-> r.rv, acc |-> r.acc,
              pre |-> r.pre]

Logged(r) == IF r.op \in r.keep THEN Append(r.log, Result(r)) ELSE r.log

\* The values a Range has passed to its visitor so far start content c.
Agrees(c, acc) ==
    /\ Len(acc) <= Len(c)
    /\ \A k \in 1..Len(acc) : c[k] = acc[k][2]

\* What a running Range has seen of the store since it was called: every
\* content the store went through that starts with the values visited so far
\* (no other content can equal the sequence Range ends up visiting).
Whole(sl, h) == sl.len <= Len(ArrOf(h, sl.ptr))

Observe(sl, h, t) ==
    [u \in DOMAIN t |->
        IF t[u].op = "Range"
        THEN [t[u] EXCEPT !.obs =
                {c \in @ \cup (IF t[u].pc = "ret" \/ ~Whole(sl, h)
                               THEN {} ELSE {ElemsOf(h, sl)}) :
                    Agrees(c, t[u].acc)}]
        ELSE t[u]]

\* The arrays renumbered: header sl, heap h and goroutines t as they stand
\* after the step.
Renumbered(sl, h, t) ==
    /\ slice' = [sl EXCEPT !.ptr = RankOf(sl, t, @)]
    /\ heap' = [a \in DOMAIN h |->
                  IF \E p \in RefsOf(sl, t) : RankOf(sl, t, p) = a
                  THEN h[CHOOSE p \in RefsOf(sl, t) : RankOf(sl, t, p) = a]
                  ELSE <<>>]
    /\ th' = [u \in DOMAIN t |->
                [t[u] EXCEPT !.hp = RankOf(sl, t, @), !.np = RankOf(sl, t, @)]]

\* One step's effect on the whole state (sl, h and t are evaluated once).
Commit(m, sl, n, h, t) ==
    /\ mu' = m
    /\ len' = n
    /\ limit' = limit
    /\ \E sl1 \in {sl}, h1 \in {h}, t1 \in {Observe(sl, h, t)} :
            Renumbered(sl1, h1, t1)

\* Goroutine t moves on with its record changed to r; shared state untouched.
Local(t, r) == Commit(mu, slice, len, heap, [th EXCEPT ![t] = r])

\* len is an int32: the largest value it holds, and the conversion int32(n) of
\* an int n >= 0.
MaxInt32 == 2147483647

Int32(n) == IF n > MaxInt32 THEN (n - MaxInt32 - 1) - MaxInt32 - 1 ELSE n

\* atomic.AddInt32(&s.len, d): the new value of the counter, which wraps
\* around at the ends of the int32 range.
AddInt32Lost(n, d) == n

AddInt32(n, d) ==
    IF d > 0 /\ n > MaxInt32 - d
    THEN (n - MaxInt32 - 1) + (d - MaxInt32 - 1)
    ELSE IF d < 0 /\ n < (0 - MaxInt32 - 1) - d
    THEN (n + MaxInt32 + 1) + (d + MaxInt32 + 1)
    ELSE n + d

\* ------------------------------------------------------------ construction
\* New(): &Slice[T]{} -- nil slice, zero length, unlocked mutex -- shared by
\* the goroutines T.
New(T, n) ==
    /\ mu = 0
    /\ slice = [ptr |-> 0, len |-> 0]
    /\ len = 0
    /\ heap = [a \in 1..(Cardinality(T) + 2) |-> <<>>]
    /\ th = [t \in T |-> Idle]
    /\ limit = n

\* The same, with callers that keep a record of their calls to the methods in K.
NewKept(T, K, n) ==
    /\ mu = 0
    /\ slice = [ptr |-> 0, len |-> 0]
    /\ len = 0
    /\ heap = [a \in 1..(Cardinality(T) + 2) |-> <<>>]
    /\ th = [t \in T |-> [Idle EXCEPT !.keep = K]]
    /\ limit = n

\* ------------------------------------------------------- lock, unlock, exit
\* A call record: method and first program point.
Call(op, pc0) == [Idle EXCEPT !.op = op, !.pc = pc0]

\* Goroutine t starts running the lock-free method of call record r.
Start(t, r) ==
    /\ th[t].pc = "idle"
    /\ Local(t, [r EXCEPT !.keep = th[t].keep, !.log = th[t].log])

\* A goroutine calls one of the locking methods: each begins s.mu.Lock().
\* Which method, and with what arguments, shows once the lock is acquired.
CallLocking(t) ==
    /\ th[t].pc = "idle"
    /\ Local(t, [th[t] EXCEPT !.pc = "lock"])

\* s.mu.Lock() returns only when the mutex is free.
CanLockAlways(t) == TRUE

CanLockReentrant(t) == mu = 0 \/ mu = t

CanLock(t) == mu = 0

\* Goroutine t acquires the lock and runs method r.op from program point
\* r.pc with the arguments in r.
Acquire(t, r) ==
    /\ th[t].pc = "lock"
    /\ CanLock(t)
    /\ Commit(t, slice, len, heap,
              [th EXCEPT ![t] = [r EXCEPT !.pre = Contents, !.prelen = len,
                                          !.hp = th[t].hp, !.hl = th[t].hl,
                                          !.outer = th[t].outer,
                                          !.keep = th[t].keep,
                                          !.log = th[t].log]])

\* defer s.mu.Unlock(): runs on return and while a panic unwinds.
Unlocked(t) == 0

\* What the caller holds once a locking method has exited; a caller that keeps
\* no results drops the slice it holds.
Exited(r) == [Idle EXCEPT !.pc = "ret", !.op = r.op, !.how = r.how, !.ok = r.ok,
                          !.hp = IF r.keep = {} THEN 0 ELSE r.hp,
                          !.hl = IF r.keep = {} THEN 0 ELSE r.hl,
                          !.keep = r.keep, !.log = Logged(r)]

\* A panic inside a locking method unwinds through the deferred Unlock.
PanicLeak(r) == [r EXCEPT !.pc = "ret", !.how = "panic"]

Panic(r) == [r EXCEPT !.pc = "unlock", !.how = "panic"]

Unlock(t) ==
    /\ th[t].pc = "unlock"
    /\ Commit(Unlocked(t), slice, len, heap, [th EXCEPT ![t] = Exited(th[t])])

\* The caller takes the result (or recovers the panic) and is free to call again.
Return(t) ==
    /\ th[t].pc = "ret"
    /\ th[t].outer = "none"
    /\ Local(t, [Idle EXCEPT !.hp = th[t].hp, !.hl = th[t].hl,
                             !.keep = th[t].keep, !.log = th[t].log])

\* ------------------------------------------------------------------- Append
\* append(s, v): in place when there is spare capacity, else into a new array.
AppendLosing(arr, n, v) == [arr EXCEPT ![1] = v]

\* The element store of append: slot n (1-based) of the array receives v.
AppendTo(arr, n, v) == [arr EXCEPT ![n] = v]

\* growslice for a full slice of n elements: a new array with the old
\* elements copied; the slot of the appended element is not cleared for an
\* element type without pointers and holds x, what the allocator left there;
\* the slots beyond it are zero.
Grown(arr, n, x) ==
    [k \in 1..GrowCap(n, n + 1) |->
        IF k <= n THEN arr[k] ELSE IF k = n + 1 THEN x ELSE Zero]

\* Append(value) with the lock acquired.
LockAppend(t) ==
    /\ slice.len < Limit
    /\ \E v \in Values : Acquire(t, [Call("Append", "append") EXCEPT !.value = v])

\* s.slice = append(s.slice, value), up to the store of the header.  With
\* spare capacity only the length word is stored; otherwise growslice builds
\* the new array and both header words are stored (StoreHdr1, StoreHdr2).
\* The element is stored after the header.
AppendHeader(t) ==
    /\ th[t].pc = "append"
    /\ IF slice.len < Cap
       THEN Commit(mu, [slice EXCEPT !.len = @ + 1], len, heap,
                   [th EXCEPT ![t] = [@ EXCEPT !.pc = "ap_elem"]])
       ELSE \E x \in Values \cup {Zero} :
            LET id == FreshId
            IN Commit(mu, slice, len,
                      [heap EXCEPT ![id] = Grown(ArrOf(heap, slice.ptr), slice.len, x)],
                      [th EXCEPT ![t] = [@ EXCEPT !.pc = "st1", !.np = id,
                                                  !.nl = slice.len + 1]])

\* The element store of s.slice = append(s.slice, value).
AppendStore(t) ==
    /\ th[t].pc = "ap_elem"
    /\ Commit(mu, slice, len,
              [heap EXCEPT ![slice.ptr] = AppendTo(@, slice.len, th[t].value)],
              [th EXCEPT ![t] = [@ EXCEPT !.pc = "add_len"]])

\* atomic.AddInt32(&s.len, 1)
AppendAddLen(t) ==
    /\ th[t].pc = "add_len"
    /\ Commit(mu, slice, AddInt32(len, 1), heap,
              [th EXCEPT ![t] = [@ EXCEPT !.pc = "unlock", !.how = "return"]])

\* ------------------------------------------- unsynchronised header loads
\* Where a lock-free reader goes once it holds a copy of the header.
\* --------------------------------------------- header stores of a writer
\* Where a writer goes once both words of the new header are stored.
AfterStore(op) == IF op = "Append" THEN "ap_elem" ELSE "ss_copy"

\* The first word of s.slice a writer stores: the pointer or the length.
StoreHdr1(t) ==
    /\ th[t].pc = "st1"
    /\ \E w \in {"ptr", "len"} :
        Commit(mu,
               [ptr |-> IF w = "ptr" THEN th[t].np ELSE slice.ptr,
                len |-> IF w = "len" THEN th[t].nl ELSE slice.len],
               len, heap,
               [th EXCEPT ![t] = [@ EXCEPT !.pc = "st2", !.got = w]])

\* The other word.
StoreHdr2(t) ==
    /\ th[t].pc = "st2"
    /\ Commit(mu, [ptr |-> th[t].np, len |-> th[t].nl], len, heap,
              [th EXCEPT ![t] = [@ EXCEPT !.pc = AfterStore(th[t].op),
                                          !.got = "none", !.np = 0, !.nl = 0]])

AfterHdr(op) == IF op = "Range" THEN "rg_next" ELSE "elem"

\* The first word of s.slice a reader loads: the pointer or the length.
LoadHdr1(t) ==
    /\ th[t].pc = "hdr1"
    /\ \E w \in {"ptr", "len"} :
        Local(t, [th[t] EXCEPT !.pc = "hdr2", !.got = w,
                               !.hp = IF w = "ptr" THEN slice.ptr ELSE @,
                               !.hl = IF w = "len" THEN slice.len ELSE @])

\* The other word, loaded later: the header may have been replaced between.
LoadHdr2(t) ==
    /\ th[t].pc = "hdr2"
    /\ Local(t, [th[t] EXCEPT !.pc = AfterHdr(th[t].op), !.got = "none",
                              !.hp = IF th[t].got = "len" THEN slice.ptr ELSE @,
                              !.hl = IF th[t].got = "ptr" THEN slice.len ELSE @])

\* Index k (0-based) lies inside the array the reader's pointer refers to.
InArray(t, k) == k + 1 <= Len(ArrOf(heap, th[t].hp))

\* A load outside the array reads memory that is not the Slice's: the result
\* is any value, or the goroutine faults.
WildValues == Values \cup {Zero}

\* The index expression's bounds check, against the length the reader holds.
InBoundsLoose(k, n) == 0 <= k /\ k <= n

InBounds(k, n) == 0 <= k /\ k < n

\* What the caller of a lock-free method holds once it has exited.
Done(r) == [r EXCEPT !.pc = "ret", !.hp = 0, !.hl = 0, !.i = 0, !.log = Logged(r)]

\* s.slice[index] of Get and GetUnsafe: bounds check, then the element load.
LoadElem(t) ==
    /\ th[t].pc = "elem"
    /\ IF ~InBounds(th[t].index, th[t].hl)
       THEN Local(t, Done([th[t] EXCEPT !.how = "panic"]))
       ELSE IF InArray(t, th[t].index)
       THEN Local(t, Done([th[t] EXCEPT !.how = "return", !.ok = TRUE,
                             !.rv = ArrOf(heap, th[t].hp)[th[t].index + 1]]))
       ELSE \E crash \in BOOLEAN, x \in WildValues :
               Local(t, Done([th[t] EXCEPT
                           !.how = IF crash THEN "panic" ELSE "return",
                           !.ok = ~crash,
                           !.rv = IF crash THEN Zero ELSE x]))

\* ---------------------------------------------------------------------- Get
CallGet(t) ==
    \E k \in Indexes : Start(t, [Call("Get", "get_check") EXCEPT !.index = k])

\* The result of Get's guard for the length it loaded.
GetGuardShort(k, n) == k < 0 \/ k + 1 >= n

GetGuardLoose(k, n) == k < 0 \/ k > n

GetGuard(k, n) == k < 0 \/ k >= n

\* if index < 0 || index >= int(atomic.LoadInt32(&s.len)) { return zero, false }
GetCheck(t) ==
    /\ th[t].pc = "get_check"
    /\ IF GetGuard(th[t].index, len)
       THEN Local(t, Done([th[t] EXCEPT !.how = "return", !.ok = FALSE,
                                         !.rv = Zero]))
       ELSE Local(t, [th[t] EXCEPT !.pc = "hdr1"])

\* ---------------------------------------------------------------- GetUnsafe
CallGetUnsafe(t) ==
    \E k \in Indexes : Start(t, [Call("GetUnsafe", "hdr1") EXCEPT !.index = k])

\* ------------------------------------------------------------------- Length
CallLength(t) == Start(t, Call("Length", "length"))

\* return int(atomic.LoadInt32(&s.len))
LengthLoad(t) ==
    /\ th[t].pc = "length"
    /\ Local(t, Done([th[t] EXCEPT !.how = "return", !.rv = len]))

\* ---------------------------------------------------------------------- Set
\* Set(index, value) with the lock acquired.
LockSet(t) ==
    \E k \in Indexes, v \in Values :
        Acquire(t, [Call("Set", "set_check") EXCEPT !.index = k, !.value = v])

\* The guard of Set, Remove and ManipulateAtIndex, on s.len read under the lock.
OutOfRangeLoose(k, n) == k < 0 \/ k > n

OutOfRange(k, n) == k < 0 \/ k >= n

\* if index < 0 || index >= int(s.len) { return false }
SetCheck(t) ==
    /\ th[t].pc = "set_check"
    /\ IF OutOfRange(th[t].index, len)
       THEN Local(t, [th[t] EXCEPT !.pc = "unlock", !.how = "return", !.ok = FALSE])
       ELSE Local(t, [th[t] EXCEPT !.pc = "set_store"])

\* The array after the assignment arr[k] = v (k 0-based).
StoreAtFirst(arr, k, v) == [arr EXCEPT ![1] = v]

StoreAt(arr, k, v) == [arr EXCEPT ![k + 1] = v]

\* s.slice[index] = value (Set and SetUnsafe): panics outside len(s.slice).
SetStore(t) ==
    /\ th[t].pc = "set_store"
    /\ IF ~InBounds(th[t].index, slice.len)
       THEN Local(t, Panic(th[t]))
       ELSE Commit(mu, slice, len,
                   [heap EXCEPT ![slice.ptr] = StoreAt(@, th[t].index, th[t].value)],
                   [th EXCEPT ![t] = [@ EXCEPT !.pc = "unlock", !.how = "return",
                                               !.ok = (th[t].op = "Set")]])

\* ---------------------------------------------------------------- SetUnsafe
\* SetUnsafe(index, value) with the lock acquired.
LockSetUnsafe(t) ==
    \E k \in Indexes, v \in Values :
        Acquire(t, [Call("SetUnsafe", "set_store") EXCEPT !.index = k, !.value = v])

\* ------------------------------------------------------------------- Remove
\* Remove(index) with the lock acquired.
LockRemove(t) ==
    \E k \in Indexes : Acquire(t, [Call("Remove", "rm_check") EXCEPT !.index = k])

\* if index < 0 || index >= int(s.len) { return false }
RemoveCheck(t) ==
    /\ th[t].pc = "rm_check"
    /\ IF OutOfRange(th[t].index, len)
       THEN Local(t, [th[t] EXCEPT !.pc = "unlock", !.how = "return", !.ok = FALSE])
       ELSE Local(t, [th[t] EXCEPT !.pc = "rm_slice"])

\* s.slice[:index] needs 0 <= index <= cap; s.slice[index+1:] needs index+1 <= len.
SliceExprsOk(k, n, c) == 0 <= k /\ k <= c /\ k + 1 <= n

\* The operands of append(s.slice[:index], s.slice[index+1:]...) are evaluated;
\* a slice expression out of range panics before anything is written.
RemoveSlice(t) ==
    /\ th[t].pc = "rm_slice"
    /\ IF ~SliceExprsOk(th[t].index, slice.len, Cap)
       THEN Local(t, Panic(th[t]))
       ELSE Local(t, [th[t] EXCEPT !.pc = "rm_move", !.i = th[t].index])

\* The element the move writes to position k (0-based): its right neighbour.
MovedElemStays(arr, k) == arr[k + 1]

MovedElem(arr, k) == arr[k + 2]

\* append's copy of the tail one place down, in the same array, element by
\* element from the low end (the destination lies below the source).
RemoveMove(t) ==
    /\ th[t].pc = "rm_move"
    /\ IF th[t].i + 1 < slice.len
       THEN Commit(mu, slice, len,
                   [heap EXCEPT ![slice.ptr][th[t].i + 1] =
                                    MovedElem(heap[slice.ptr], th[t].i)],
                   [th EXCEPT ![t] = [@ EXCEPT !.i = @ + 1]])
       ELSE Local(t, [th[t] EXCEPT !.pc = "rm_store", !.i = 0])

\* s.slice = <the result of append>: same array, one element shorter.
ShrunkHeaderKept(sl) == sl

ShrunkHeader(sl) == [sl EXCEPT !.len = @ - 1]

RemoveStore(t) ==
    /\ th[t].pc = "rm_store"
    /\ Commit(mu, ShrunkHeader(slice), len, heap,
              [th EXCEPT ![t] = [@ EXCEPT !.pc = "rm_addlen"]])

\* atomic.AddInt32(&s.len, -1)
RemoveAddLen(t) ==
    /\ th[t].pc = "rm_addlen"
    /\ Commit(mu, slice, AddInt32(len, 0 - 1), heap,
              [th EXCEPT ![t] = [@ EXCEPT !.pc = "unlock", !.how = "return",
                                          !.ok = (th[t].op = "Remove")]])

\* ------------------------------------------------------------- RemoveUnsafe
\* RemoveUnsafe(index) with the lock acquired.
LockRemoveUnsafe(t) ==
    \E k \in Indexes :
        Acquire(t, [Call("RemoveUnsafe", "rm_slice") EXCEPT !.index = k])

\* -------------------------------------------------------------------- Range
\* The visitors: "all" always continues; "below" is the test's
\* func(index, value) bool { return index < lim }.
ContinueAlways(f, lim, k) == TRUE

Continue(f, lim, k) == f = "all" \/ k < lim

Visitors == {<<"all", 0>>} \cup {<<"below", n>> : n \in 0..Limit}

CallRange(t) ==
    \E c \in Visitors :
        Start(t, [Call("Range", "hdr1") EXCEPT !.f = c[1], !.lim = c[2]])

\* Range with a visitor that always continues.
CallRangeAll(t) == Start(t, [Call("Range", "hdr1") EXCEPT !.f = "all"])

\* The indices `for i, v := range s.slice` runs over: those of the header copy.
RangeMore(k, n) == k < n

\* One iteration: v is loaded from the array of the header copy and f(i, v) is
\* called; the loop ends when f returns false or the copied length is reached.
\* A load outside the array yields any value or faults.
RangeNext(t) ==
    /\ th[t].pc = "rg_next"
    /\ IF ~RangeMore(th[t].i, th[t].hl)
       THEN Local(t, Done([th[t] EXCEPT !.how = "return"]))
       ELSE \E crash \in BOOLEAN, x \in WildValues :
            /\ InArray(t, th[t].i) => ~crash /\ x = Zero
            /\ LET v == IF InArray(t, th[t].i)
                        THEN ArrOf(heap, th[t].hp)[th[t].i + 1] ELSE x
                   r == [th[t] EXCEPT !.acc = Append(@, <<th[t].i, v>>),
                                      !.calls = @ + 1, !.i = @ + 1]
               IN IF crash THEN Local(t, Done([th[t] EXCEPT !.how = "panic"]))
                  ELSE IF Continue(th[t].f, th[t].lim, th[t].i) THEN Local(t, r)
                  ELSE Local(t, Done([r EXCEPT !.how = "return"]))

\* ----------------------------------------------------------------- SetSlice
\* SetSlice(newSlice) with the lock acquired.
LockSetSlice(t) ==
    \E q \in Seqs : Acquire(t, [Call("SetSlice", "ss_make") EXCEPT !.seq = q])

\* s.slice = make([]T, len(newSlice)): the header of a new zeroed array,
\* stored (StoreHdr1, StoreHdr2) before anything is copied into it.
Made(n, id) == [ptr |-> IF n = 0 THEN 0 ELSE id, len |-> n]

SetSliceMake(t) ==
    /\ th[t].pc = "ss_make"
    /\ LET n == Len(th[t].seq)
           id == FreshId
       IN Commit(mu, slice, len,
                 IF n = 0 THEN heap ELSE [heap EXCEPT ![id] = ZeroArr(n)],
                 [th EXCEPT ![t] = [@ EXCEPT !.pc = "st1", !.i = 0,
                                             !.np = Made(n, id).ptr,
                                             !.nl = Made(n, id).len]])

\* copy(s.slice, newSlice), element by element.
SetSliceCopy(t) ==
    /\ th[t].pc = "ss_copy"
    /\ IF th[t].i < Len(th[t].seq)
       THEN Commit(mu, slice, len,
                   [heap EXCEPT ![slice.ptr][th[t].i + 1] = th[t].seq[th[t].i + 1]],
                   [th EXCEPT ![t] = [@ EXCEPT !.i = @ + 1]])
       ELSE Local(t, [th[t] EXCEPT !.pc = "ss_len"])

\* atomic.StoreInt32(&s.len, int32(len(newSlice)))
StoredLenStale(q) == len

StoredLen(q) == Int32(Len(q))

SetSliceLen(t) ==
    /\ th[t].pc = "ss_len"
    /\ Commit(mu, slice, StoredLen(th[t].seq), heap,
              [th EXCEPT ![t] = [@ EXCEPT !.pc = "unlock", !.how = "return"]])

\* ----------------------------------------------------------------- GetSlice
\* GetSlice() with the lock acquired.
LockGetSlice(t) == Acquire(t, Call("GetSlice", "gs_copy"))

\* copiedSlice := make([]T, len(s.slice)); copy(copiedSlice, s.slice)
CopyOut(h, sl) == ElemsOf(h, sl)

\* The heap and the header of copiedSlice after the copy into a new array id.
CopiedAlias(h, sl, id) == [heap |-> h, out |-> sl]

Copied(h, sl, id) ==
    [heap |-> IF sl.len = 0 THEN h ELSE [h EXCEPT ![id] = CopyOut(h, sl)],
     out |-> [ptr |-> IF sl.len = 0 THEN 0 ELSE id, len |-> sl.len]]

\* The caller receives the header of the copy (hp, hl); acc is its contents.
GetSliceCopy(t) ==
    /\ th[t].pc = "gs_copy"
    /\ LET c == Copied(heap, slice, FreshId)
       IN Commit(mu, slice, len, c.heap,
                 [th EXCEPT ![t] = [@ EXCEPT !.pc = "unlock", !.how = "return",
                                             !.acc = ElemsOf(c.heap, c.out),
                                             !.hp = c.out.ptr, !.hl = c.out.len]])

\* -------------------------------------------------------- ManipulateAtIndex
\* The callbacks: "inc" does *p = *p + 1 (bounded by the values of the model),
\* "set" does *p = v, "panic" panics before it writes.
Callbacks == {"inc", "set", "panic"}

Apply(f, v, x) == IF f = "inc" THEN x + 1 ELSE v

\* The callbacks a caller of the general model passes.
CallbackArgs == {<<"set", v>> : v \in Values} \cup {<<"panic", Zero>>}

\* ManipulateAtIndex(index, manipulateFunc) with the lock acquired.
\* Callbacks that call a method of the same Slice: "relock" one that begins
\* with s.mu.Lock(), the others Length, Get of the index being manipulated and
\* Range with a visitor that always continues.
CallbackCalls == {"relock", "length", "get", "range"}

InnerCall(f, k) ==
    CASE f = "relock" -> Call("none", "lock")
      [] f = "length" -> Call("Length", "length")
      [] f = "get" -> [Call("Get", "get_check") EXCEPT !.index = k]
      [] f = "range" -> [Call("Range", "hdr1") EXCEPT !.f = "all"]

\* The goroutine inside its callback's call; the method that invoked the
\* callback stays suspended below it.
Enter(r) == [InnerCall(r.f, r.index) EXCEPT !.outer = r.op, !.keep = r.keep,
                                            !.log = r.log]

\* The callback's call has exited: the callback returns, and so does the
\* method that invoked it (a panic of the inner call carries on unwinding).
CallbackReturn(t) ==
    /\ th[t].pc = "ret"
    /\ th[t].outer # "none"
    /\ Local(t, [Idle EXCEPT !.pc = "unlock", !.op = th[t].outer,
                             !.how = th[t].how,
                             !.ok = (th[t].how = "return"
                                       /\ th[t].outer = "ManipulateAtIndex"),
                             !.keep = th[t].keep, !.log = th[t].log])

\* ManipulateAtIndex or ManipulateAtIndexUnsafe with such a callback, the lock
\* acquired.
LockManipulateCalling(t) ==
    \E op \in {"ManipulateAtIndex", "ManipulateAtIndexUnsafe"},
       k \in Indexes, f \in CallbackCalls :
        Acquire(t, [Call(op, IF op = "ManipulateAtIndex" THEN "ma_check"
                                                         ELSE "ma_addr")
                        EXCEPT !.index = k, !.f = f])

LockManipulate(t) ==
    \E k \in Indexes, c \in CallbackArgs :
        Acquire(t, [Call("ManipulateAtIndex", "ma_check")
                        EXCEPT !.index = k, !.f = c[1], !.value = c[2]])

\* if index < 0 || index >= int(s.len) { return false }
ManipulateCheck(t) ==
    /\ th[t].pc = "ma_check"
    /\ IF OutOfRange(th[t].index, len)
       THEN Local(t, [th[t] EXCEPT !.pc = "unlock", !.how = "return", !.ok = FALSE])
       ELSE Local(t, [th[t] EXCEPT !.pc = "ma_addr"])

\* manipulateFunc(&s.slice[index]): the address is taken (panic outside
\* len(s.slice)), the callback is entered and reads the element.
ManipulateInvoke(t) ==
    /\ th[t].pc = "ma_addr"
    /\ IF ~InBounds(th[t].index, slice.len)
       THEN Local(t, Panic(th[t]))
       ELSE IF th[t].f = "panic"
       THEN Local(t, Panic([th[t] EXCEPT !.calls = @ + 1]))
       ELSE IF th[t].f \in CallbackCalls
       THEN Local(t, Enter(th[t]))
       ELSE Local(t, [th[t] EXCEPT !.pc = "cb_write", !.calls = @ + 1,
                        !.tmp = heap[slice.ptr][th[t].index + 1]])

\* The callback writes its result through the pointer and returns.
CallbackWrite(t) ==
    /\ th[t].pc = "cb_write"
    /\ Commit(mu, slice, len,
              [heap EXCEPT ![slice.ptr][th[t].index + 1] =
                              Apply(th[t].f, th[t].value, th[t].tmp)],
              [th EXCEPT ![t] = [@ EXCEPT !.pc = "unlock", !.how = "return",
                                   !.ok = (th[t].op = "ManipulateAtIndex")]])

\* -------------------------------------------------- ManipulateAtIndexUnsafe
\* ManipulateAtIndexUnsafe(index, manipulateFunc) with the lock acquired.
LockManipulateUnsafe(t) ==
    \E k \in Indexes, c \in CallbackArgs :
        Acquire(t, [Call("ManipulateAtIndexUnsafe", "ma_addr")
                        EXCEPT !.index = k, !.f = c[1], !.value = c[2]])

\* ------------------------------------------------------------ specifications
\* Two goroutines call the locking methods, in any order, with any arguments.
Two == {1, 2}

InitLocked == New(Two, MaxLen)

NextLocked ==
    \E t \in Two :
        \/ CallLocking(t)
        \/ LockAppend(t)
        \/ LockSet(t)
        \/ LockSetUnsafe(t)
        \/ LockRemove(t)
        \/ LockRemoveUnsafe(t)
        \/ LockSetSlice(t)
        \/ LockGetSlice(t)
        \/ LockManipulate(t)
        \/ LockManipulateUnsafe(t)
        \/ AppendHeader(t)
        \/ StoreHdr1(t)
        \/ StoreHdr2(t)
        \/ AppendStore(t)
        \/ AppendAddLen(t)
        \/ SetCheck(t)
        \/ SetStore(t)
        \/ RemoveCheck(t)
        \/ RemoveSlice(t)
        \/ RemoveMove(t)
        \/ RemoveStore(t)
        \/ RemoveAddLen(t)
        \/ SetSliceMake(t)
        \/ SetSliceCopy(t)
        \/ SetSliceLen(t)
        \/ GetSliceCopy(t)
        \/ ManipulateCheck(t)
        \/ ManipulateInvoke(t)
        \/ CallbackWrite(t)
        \/ Unlock(t)
        \/ Return(t)

SpecLocked == InitLocked /\ [][NextLocked]_vars

\* Goroutine 1 reads elements and the length without the lock (Get, GetUnsafe,
\* Length) while goroutine 2 calls the locking methods, each in any order and
\* with any arguments.
Readers == {1}
Writers == {2}

Next ==
    \/ \E t \in Readers :
        \/ CallGet(t)
        \/ CallGetUnsafe(t)
        \/ CallLength(t)
        \/ GetCheck(t)
        \/ LoadHdr1(t)
        \/ LoadHdr2(t)
        \/ LoadElem(t)
        \/ LengthLoad(t)
        \/ Return(t)
    \/ \E t \in Writers :
        \/ CallLocking(t)
        \/ LockAppend(t)
        \/ LockSet(t)
        \/ LockSetUnsafe(t)
        \/ LockRemove(t)
        \/ LockRemoveUnsafe(t)
        \/ LockSetSlice(t)
        \/ LockGetSlice(t)
        \/ LockManipulate(t)
        \/ LockManipulateUnsafe(t)
        \/ AppendHeader(t)
        \/ StoreHdr1(t)
        \/ StoreHdr2(t)
        \/ AppendStore(t)
        \/ AppendAddLen(t)
        \/ SetCheck(t)
        \/ SetStore(t)
        \/ RemoveCheck(t)
        \/ RemoveSlice(t)
        \/ RemoveMove(t)
        \/ RemoveStore(t)
        \/ RemoveAddLen(t)
        \/ SetSliceMake(t)
        \/ SetSliceCopy(t)
        \/ SetSliceLen(t)
        \/ GetSliceCopy(t)
        \/ ManipulateCheck(t)
        \/ ManipulateInvoke(t)
        \/ CallbackWrite(t)
        \/ Unlock(t)
        \/ Return(t)

Spec == New(Readers \cup Writers, MaxLen) /\ [][Next]_vars


\* ---------------------------------------------------------------- scenarios
\* The methods of Slice.
Methods == {"Append", "Get", "GetUnsafe", "Set", "SetUnsafe", "Length", "Remove",
            "RemoveUnsafe", "Range", "SetSlice", "GetSlice", "ManipulateAtIndex",
            "ManipulateAtIndexUnsafe"}

\* The number of kept calls goroutine t has made so far, and of those to op.
Calls(t) == Len(th[t].log)
CallsOf(t, op) == Cardinality({j \in 1..Len(th[t].log) : th[t].log[j].op = op})

\* Goroutine w has installed the store the scenario starts from.
Installed(w) == Calls(w) >= 1

\* NAppend goroutines each call Append once, with their own number as the value,
\* on a new Slice; the main goroutine waits for them (wg.Wait()) and then calls
\* Length() and GetSlice().
NAppend == 3
Appenders == 1..NAppend
Main == {NAppend + 1}

\* Append(t) by goroutine t, with the lock acquired.
LockAppendOwn(t) == Acquire(t, [Call("Append", "append") EXCEPT !.value = t])

Waited == \A u \in Appenders : th[u].pc = "idle" /\ Calls(u) = 1

NextAppend ==
    \/ \E t \in Appenders :
        \/ Calls(t) = 0 /\ CallLocking(t)
        \/ LockAppendOwn(t)
        \/ AppendHeader(t)
        \/ StoreHdr1(t)
        \/ StoreHdr2(t)
        \/ AppendStore(t)
        \/ AppendAddLen(t)
        \/ Unlock(t)
        \/ Return(t)
    \/ \E t \in Main :
        \/ Waited /\ Calls(t) = 0 /\ CallLength(t)
        \/ LengthLoad(t)
        \/ Calls(t) = 1 /\ CallLocking(t)
        \/ LockGetSlice(t)
        \/ GetSliceCopy(t)
        \/ Unlock(t)
        \/ Return(t)

SpecAppend == NewKept(Appenders \cup Main, Methods, NAppend) /\ [][NextAppend]_vars

\* Goroutine 2 installs a store with SetSlice and then calls Remove once;
\* goroutine 1 makes two reads (Get or GetUnsafe, any indices) at any time
\* after the store is installed.
NextPair ==
    \/ \E t \in Readers :
        \/ Installed(2) /\ Calls(t) < 2 /\ CallGet(t)
        \/ Installed(2) /\ Calls(t) < 2 /\ CallGetUnsafe(t)
        \/ GetCheck(t)
        \/ LoadHdr1(t)
        \/ LoadHdr2(t)
        \/ LoadElem(t)
        \/ Return(t)
    \/ \E t \in Writers :
        \/ Calls(t) < 2 /\ CallLocking(t)
        \/ Calls(t) = 0 /\ LockSetSlice(t)
        \/ Calls(t) = 1 /\ LockRemove(t)
        \/ SetSliceMake(t)
        \/ StoreHdr1(t)
        \/ StoreHdr2(t)
        \/ SetSliceCopy(t)
        \/ SetSliceLen(t)
        \/ RemoveCheck(t)
        \/ RemoveSlice(t)
        \/ RemoveMove(t)
        \/ RemoveStore(t)
        \/ RemoveAddLen(t)
        \/ Unlock(t)
        \/ Return(t)

SpecPair == NewKept(Readers \cup Writers, Methods, MaxLen) /\ [][NextPair]_vars

\* Goroutine 2 installs a store with SetSlice and then calls one mutator once;
\* goroutine 1 calls Range, with a visitor that always continues, once at any
\* time after the store is installed.
NextRange ==
    \/ \E t \in Readers :
        \/ Installed(2) /\ Calls(t) = 0 /\ CallRangeAll(t)
        \/ LoadHdr1(t)
        \/ LoadHdr2(t)
        \/ RangeNext(t)
        \/ Return(t)
    \/ \E t \in Writers :
        \/ Calls(t) < 2 /\ CallLocking(t)
        \/ Calls(t) <= 1 /\ LockSetSlice(t)
        \/ Calls(t) = 1 /\ LockAppend(t)
        \/ Calls(t) = 1 /\ LockSet(t)
        \/ Calls(t) = 1 /\ LockRemove(t)
        \/ Calls(t) = 1 /\ LockManipulate(t)
        \/ AppendHeader(t)
        \/ StoreHdr1(t)
        \/ StoreHdr2(t)
        \/ AppendStore(t)
        \/ AppendAddLen(t)
        \/ SetCheck(t)
        \/ SetStore(t)
        \/ RemoveCheck(t)
        \/ RemoveSlice(t)
        \/ RemoveMove(t)
        \/ RemoveStore(t)
        \/ RemoveAddLen(t)
        \/ SetSliceMake(t)
        \/ SetSliceCopy(t)
        \/ SetSliceLen(t)
        \/ ManipulateCheck(t)
        \/ ManipulateInvoke(t)
        \/ CallbackWrite(t)
        \/ Unlock(t)
        \/ Return(t)

SpecRange == NewKept(Readers \cup Writers, Methods, MaxLen) /\ [][NextRange]_vars

\* Goroutine 1 installs a store with SetSlice; then each of NManip goroutines
\* calls ManipulateAtIndex once with a callback that increments the element.
NManip == 2
Manips == 1..NManip
First == {1}

\* ManipulateAtIndex(k, func(e *int) { *e++ }) with the lock acquired.
LockManipulateInc(t) ==
    \E k \in Indexes :
        Acquire(t, [Call("ManipulateAtIndex", "ma_check")
                        EXCEPT !.index = k, !.f = "inc"])

NextManip ==
    \/ \E t \in First :
        \/ Calls(t) = 0 /\ CallLocking(t)
        \/ Calls(t) = 0 /\ LockSetSlice(t)
        \/ SetSliceMake(t)
        \/ StoreHdr1(t)
        \/ StoreHdr2(t)
        \/ SetSliceCopy(t)
        \/ SetSliceLen(t)
    \/ \E t \in Manips :
        \/ Installed(1) /\ CallsOf(t, "ManipulateAtIndex") = 0 /\ CallLocking(t)
        \/ Installed(1) /\ LockManipulateInc(t)
        \/ ManipulateCheck(t)
        \/ ManipulateInvoke(t)
        \/ CallbackWrite(t)
        \/ Unlock(t)
        \/ Return(t)

SpecManip == NewKept(Manips, Methods, MaxLen) /\ [][NextManip]_vars

\* Two goroutines keep calling the methods that can leave by a panic while
\* holding the lock, and SetSlice, in any order and with any arguments. Every
\* goroutine inside a method keeps running, and a goroutine waiting in
\* s.mu.Lock() is not passed over forever (sync.Mutex hands the lock to a
\* waiter that has been starved).
Locking(t) ==
    \/ LockSetSlice(t)
    \/ LockSetUnsafe(t)
    \/ LockRemoveUnsafe(t)
    \/ LockManipulate(t)
    \/ LockManipulateUnsafe(t)

Running(t) ==
    \/ SetSliceMake(t)
    \/ StoreHdr1(t)
    \/ StoreHdr2(t)
    \/ SetSliceCopy(t)
    \/ SetSliceLen(t)
    \/ SetStore(t)
    \/ RemoveSlice(t)
    \/ RemoveMove(t)
    \/ RemoveStore(t)
    \/ RemoveAddLen(t)
    \/ ManipulateCheck(t)
    \/ ManipulateInvoke(t)
    \/ CallbackWrite(t)
    \/ Unlock(t)

NextFair ==
    \E t \in Two :
        \/ CallLocking(t)
        \/ Locking(t)
        \/ Running(t)
        \/ Return(t)

Fairness == \A t \in Two : WF_vars(Running(t)) /\ SF_vars(Locking(t))

SpecFair == New(Two, FairLen) /\ [][NextFair]_vars /\ Fairness

\* One goroutine appends to a new Slice, reading elements and the length in
\* between, and keeps the list of its Append calls.
Solo == {1}

NextSeqAppend ==
    \E t \in Solo :
        \/ slice.len < Limit /\ CallLocking(t)
        \/ LockAppend(t)
        \/ AppendHeader(t)
        \/ StoreHdr1(t)
        \/ StoreHdr2(t)
        \/ AppendStore(t)
        \/ AppendAddLen(t)
        \/ Unlock(t)
        \/ CallGet(t)
        \/ GetCheck(t)
        \/ LoadHdr1(t)
        \/ LoadHdr2(t)
        \/ LoadElem(t)
        \/ CallLength(t)
        \/ LengthLoad(t)
        \/ Return(t)

SpecSeqAppend == NewKept(Solo, {"Append"}, SeqLen) /\ [][NextSeqAppend]_vars

\* One goroutine calls all the methods, in any order and with any arguments.
NextSeq ==
    \E t \in Solo :
        \/ CallLocking(t)
        \/ LockAppend(t)
        \/ LockSet(t)
        \/ LockSetUnsafe(t)
        \/ LockRemove(t)
        \/ LockRemoveUnsafe(t)
        \/ LockSetSlice(t)
        \/ LockGetSlice(t)
        \/ LockManipulate(t)
        \/ LockManipulateUnsafe(t)
        \/ AppendHeader(t)
        \/ StoreHdr1(t)
        \/ StoreHdr2(t)
        \/ AppendStore(t)
        \/ AppendAddLen(t)
        \/ SetCheck(t)
        \/ SetStore(t)
        \/ RemoveCheck(t)
        \/ RemoveSlice(t)
        \/ RemoveMove(t)
        \/ RemoveStore(t)
        \/ RemoveAddLen(t)
        \/ SetSliceMake(t)
        \/ SetSliceCopy(t)
        \/ SetSliceLen(t)
        \/ GetSliceCopy(t)
        \/ ManipulateCheck(t)
        \/ ManipulateInvoke(t)
        \/ CallbackWrite(t)
        \/ Unlock(t)
        \/ CallGet(t)
        \/ CallGetUnsafe(t)
        \/ CallLength(t)
        \/ CallRange(t)
        \/ GetCheck(t)
        \/ LoadHdr1(t)
        \/ LoadHdr2(t)
        \/ LoadElem(t)
        \/ LengthLoad(t)
        \/ RangeNext(t)
        \/ Return(t)

SpecSeq == New(Solo, SeqLen) /\ [][NextSeq]_vars

\* ------------------------------------------------------------------- claims
\* The goroutines of the specification being checked.
\* One goroutine brings the Slice into any state (Append, SetUnsafe, Remove,
\* RemoveUnsafe, SetSlice), then starts keeping its results and calls
\* Set(i, v) followed at once by Get(i).
Quiet(t) == th[t].keep = {}

BeginKeeping(t) ==
    /\ th[t].pc = "idle"
    /\ Quiet(t)
    /\ Local(t, [th[t] EXCEPT !.keep = Methods])

\* Get(i) with the index of the call just made.
CallGetAgain(t) ==
    /\ Calls(t) >= 1
    /\ Start(t, [Call("Get", "get_check")
                    EXCEPT !.index = th[t].log[Len(th[t].log)].index])

NextSetGet ==
    \E t \in Solo :
        \/ (Quiet(t) \/ Calls(t) = 0) /\ CallLocking(t)
        \/ Quiet(t) /\ LockAppend(t)
        \/ Quiet(t) /\ LockSetUnsafe(t)
        \/ Quiet(t) /\ LockRemove(t)
        \/ Quiet(t) /\ LockRemoveUnsafe(t)
        \/ Quiet(t) /\ LockSetSlice(t)
        \/ BeginKeeping(t)
        \/ ~Quiet(t) /\ LockSet(t)
        \/ AppendHeader(t)
        \/ StoreHdr1(t)
        \/ StoreHdr2(t)
        \/ AppendStore(t)
        \/ AppendAddLen(t)
        \/ SetCheck(t)
        \/ SetStore(t)
        \/ RemoveCheck(t)
        \/ RemoveSlice(t)
        \/ RemoveMove(t)
        \/ RemoveStore(t)
        \/ RemoveAddLen(t)
        \/ SetSliceMake(t)
        \/ SetSliceCopy(t)
        \/ SetSliceLen(t)
        \/ Unlock(t)
        \/ Calls(t) = 1 /\ CallGetAgain(t)
        \/ GetCheck(t)
        \/ LoadHdr1(t)
        \/ LoadHdr2(t)
        \/ LoadElem(t)
        \/ Return(t)

SpecSetGet == New(Solo, SeqLen) /\ [][NextSetGet]_vars

\* One goroutine brings the Slice into any state, then starts keeping its
\* results and calls SetSlice(seq), GetSlice() and Length() in a row.
NextRoundTrip ==
    \E t \in Solo :
        \/ (Quiet(t) \/ Calls(t) <= 1) /\ CallLocking(t)
        \/ Quiet(t) /\ LockAppend(t)
        \/ Quiet(t) /\ LockSetUnsafe(t)
        \/ Quiet(t) /\ LockRemove(t)
        \/ Quiet(t) /\ LockRemoveUnsafe(t)
        \/ (Quiet(t) \/ Calls(t) = 0) /\ LockSetSlice(t)
        \/ BeginKeeping(t)
        \/ ~Quiet(t) /\ Calls(t) = 1 /\ LockGetSlice(t)
        \/ AppendHeader(t)
        \/ StoreHdr1(t)
        \/ StoreHdr2(t)
        \/ AppendStore(t)
        \/ AppendAddLen(t)
        \/ SetStore(t)
        \/ RemoveCheck(t)
        \/ RemoveSlice(t)
        \/ RemoveMove(t)
        \/ RemoveStore(t)
        \/ RemoveAddLen(t)
        \/ SetSliceMake(t)
        \/ SetSliceCopy(t)
        \/ SetSliceLen(t)
        \/ GetSliceCopy(t)
        \/ Unlock(t)
        \/ Calls(t) = 2 /\ CallLength(t)
        \/ LengthLoad(t)
        \/ Return(t)

SpecRoundTrip == New(Solo, SeqLen) /\ [][NextRoundTrip]_vars

\* One goroutine builds a sequence of its own, takes a copy of the store with
\* GetSlice once, calls the mutators in any order and number, SetSlice always
\* with the slice it holds (first its own sequence, later the copy GetSlice
\* returned), and at any time between calls assigns elements of that slice.
Held(r) == [ptr |-> r.hp, len |-> r.hl]

\* newSlice := []T{...}
MakeSeq(t) ==
    /\ th[t].pc = "idle"
    /\ th[t].hp = 0
    /\ \E q \in Seqs \ {<<>>} :
        LET id == FreshId
        IN Commit(mu, slice, len, [heap EXCEPT ![id] = q],
                  [th EXCEPT ![t] = [@ EXCEPT !.hp = id, !.hl = Len(q)]])

\* SetSlice(newSlice) with the lock acquired, for the slice the caller holds.
LockSetSliceHeld(t) ==
    /\ th[t].hp # 0
    /\ Acquire(t, [Call("SetSlice", "ss_make")
                      EXCEPT !.seq = ElemsOf(heap, Held(th[t]))])

\* held[k] = v, by the caller, outside any method.
WriteHeld(t) ==
    /\ th[t].pc = "idle"
    /\ th[t].hp # 0
    /\ \E k \in 1..th[t].hl, v \in Values :
        /\ heap[th[t].hp][k] # v
        /\ Commit(mu, slice, len, [heap EXCEPT ![th[t].hp][k] = v], th)

NextAlias ==
    \E t \in Solo :
        \/ MakeSeq(t)
        \/ WriteHeld(t)
        \/ CallLocking(t)
        \/ LockSetSliceHeld(t)
        \/ Calls(t) = 0 /\ LockGetSlice(t)
        \/ LockAppend(t)
        \/ LockSet(t)
        \/ LockRemove(t)
        \/ LockManipulate(t)
        \/ AppendHeader(t)
        \/ StoreHdr1(t)
        \/ StoreHdr2(t)
        \/ AppendStore(t)
        \/ AppendAddLen(t)
        \/ SetCheck(t)
        \/ SetStore(t)
        \/ RemoveCheck(t)
        \/ RemoveSlice(t)
        \/ RemoveMove(t)
        \/ RemoveStore(t)
        \/ RemoveAddLen(t)
        \/ SetSliceMake(t)
        \/ SetSliceCopy(t)
        \/ SetSliceLen(t)
        \/ GetSliceCopy(t)
        \/ ManipulateCheck(t)
        \/ ManipulateInvoke(t)
        \/ CallbackWrite(t)
        \/ Unlock(t)
        \/ Return(t)

SpecAlias == NewKept(Solo, {"GetSlice"}, MaxLen) /\ [][NextAlias]_vars

\* On a new Slice one goroutine makes two calls that grow, replace or shrink
\* the store, while another calls Range once, with any visitor.
NextResize ==
    \/ \E t \in Readers :
        \/ Calls(t) = 0 /\ CallRange(t)
        \/ LoadHdr1(t)
        \/ LoadHdr2(t)
        \/ RangeNext(t)
        \/ Return(t)
    \/ \E t \in Writers :
        \/ Calls(t) < 2 /\ CallLocking(t)
        \/ LockSetSlice(t)
        \/ LockAppend(t)
        \/ Calls(t) = 1 /\ LockRemove(t)
        \/ Calls(t) = 1 /\ LockRemoveUnsafe(t)
        \/ AppendHeader(t)
        \/ StoreHdr1(t)
        \/ StoreHdr2(t)
        \/ AppendStore(t)
        \/ AppendAddLen(t)
        \/ RemoveCheck(t)
        \/ RemoveSlice(t)
        \/ RemoveMove(t)
        \/ RemoveStore(t)
        \/ RemoveAddLen(t)
        \/ SetSliceMake(t)
        \/ SetSliceCopy(t)
        \/ SetSliceLen(t)
        \/ Unlock(t)
        \/ Return(t)

SpecResize == NewKept(Readers \cup Writers, Methods, MaxLen) /\ [][NextResize]_vars

\* Two goroutines call SetSlice and the two ManipulateAtIndex methods with
\* callbacks that call methods of the same Slice. The scheduler runs every
\* goroutine that can take a step; nothing is assumed about a goroutine
\* waiting for the mutex.
RunningNested(t) ==
    \/ SetSliceMake(t)
    \/ StoreHdr1(t)
    \/ StoreHdr2(t)
    \/ SetSliceCopy(t)
    \/ SetSliceLen(t)
    \/ ManipulateCheck(t)
    \/ ManipulateInvoke(t)
    \/ GetCheck(t)
    \/ LoadHdr1(t)
    \/ LoadHdr2(t)
    \/ LoadElem(t)
    \/ LengthLoad(t)
    \/ RangeNext(t)
    \/ CallbackReturn(t)
    \/ Unlock(t)

NextNested ==
    \E t \in Two :
        \/ CallLocking(t)
        \/ LockSetSlice(t)
        \/ LockManipulateCalling(t)
        \/ RunningNested(t)
        \/ Return(t)

FairNested == \A t \in Two : WF_vars(RunningNested(t))

SpecNested == New(Two, FairLen) /\ [][NextNested]_vars /\ FairNested

Gs == DOMAIN th

\* Sequence c without its element at index k (0-based).
RemoveAt(c, k) == SubSeq(c, 1, k) \o SubSeq(c, k + 2, Len(c))

\* A goroutine between acquiring the lock and releasing it.
InMutation(r) == r.pc \notin {"idle", "lock", "ret"}

\* C1: whenever the lock is free, the atomic length counter equals the number
\* of elements in the store (and the length of the slice header) and is not
\* negative, whatever locking methods have run, returned false or panicked.
C1_LenMatchesStore ==
    mu = 0 => (len = Len(Contents) /\ len = slice.len /\ len >= 0)

\* A RemoveUnsafe call has panicked and left a non-empty store with spare capacity.
C1_Witness ==
    /\ mu = 0 /\ len > 0 /\ len < Cap
    /\ \E t \in Gs : th[t].pc = "ret" /\ th[t].how = "panic" /\ th[t].op = "RemoveUnsafe"

\* What the main goroutine of SpecAppend has obtained from Length and GetSlice.
MainLog == th[NAppend + 1].log

\* C2: once NAppend goroutines have each appended their own value to a new
\* Slice and all have returned, Length() is NAppend and GetSlice() holds each
\* of the values exactly once.
C2_AllAppended ==
    Len(MainLog) = 2 =>
        /\ MainLog[1].op = "Length" /\ MainLog[1].rv = NAppend
        /\ MainLog[2].op = "GetSlice" /\ Len(MainLog[2].acc) = NAppend
        /\ \A v \in Appenders :
            Cardinality({k \in 1..Len(MainLog[2].acc) : MainLog[2].acc[k] = v}) = 1

\* The main goroutine holds both results and the last goroutine's value came first.
C2_Witness ==
    /\ Len(MainLog) = 2
    /\ MainLog[2].acc[1] = NAppend
    /\ MainLog[2].acc[NAppend] = 1

\* C3: Get never ends in a panic: it returns (value, true) or (zero, false)
\* whatever a concurrent goroutine does to the store.
C3_GetNeverPanics ==
    \A t \in Gs : (th[t].op = "Get" /\ th[t].pc = "ret") => th[t].how = "return"

\* The kept call e ended the way Get or GetUnsafe ends on a store holding c.
Answers(c, e) ==
    IF InBounds(e.index, Len(c))
    THEN e.how = "return" /\ e.rv = c[e.index + 1] /\ (e.op = "Get" => e.ok)
    ELSE IF e.op = "Get"
    THEN e.how = "return" /\ ~e.ok /\ e.rv = Zero
    ELSE e.how = "panic"

\* C4: two successive reads (Get or GetUnsafe) by one goroutine around a single
\* Remove by another are both answered from the contents before the Remove, or
\* both from the contents after it, or the first from before and the second
\* from after; a half-shifted store is never observed.
C4_ReadsSeeCompleteStates ==
    (Calls(1) = 2 /\ Calls(2) = 2) =>
        LET before == th[2].log[2].pre
            after == Contents
            e1 == th[1].log[1]
            e2 == th[1].log[2]
        IN \/ Answers(before, e1) /\ Answers(before, e2)
           \/ Answers(after, e1) /\ Answers(after, e2)
           \/ Answers(before, e1) /\ Answers(after, e2)

\* C5: a Range call whose visitor always continues returns, and the pairs it
\* passed to the visitor are the indices 0, 1, ... with the values of the whole
\* store as it was at one instant between the call and the return.
C5_RangeSeesOneInstant ==
    \A t \in Gs :
        (th[t].op = "Range" /\ th[t].pc = "ret") =>
            /\ th[t].how = "return"
            /\ \A k \in 1..Len(th[t].acc) : th[t].acc[k][1] = k - 1
            /\ \E c \in th[t].obs : Len(c) = Len(th[t].acc) /\ Agrees(c, th[t].acc)

\* C6: the sequence GetSlice returns is the store's contents, exactly len
\* elements, as they were when GetSlice acquired the lock, and no other
\* goroutine is inside a mutation while the copy is made.
C6_GetSliceAtomic ==
    \A t \in Gs :
        (th[t].op = "GetSlice" /\ th[t].pc = "unlock") =>
            /\ th[t].acc = Contents
            /\ Len(th[t].acc) = len
            /\ th[t].acc = th[t].pre
            /\ \A u \in Gs \ {t} : ~InMutation(th[u])

\* GetSlice has copied a non-empty store with spare capacity while the other
\* goroutine waits for the lock.
C6_Witness ==
    \E t \in Gs :
        /\ th[t].op = "GetSlice" /\ th[t].pc = "unlock"
        /\ Len(th[t].acc) > 0 /\ Len(th[t].acc) < Cap
        /\ \E u \in Gs \ {t} : th[u].pc = "lock"

\* Every goroutine of SpecManip has made its call, all on index k.
AllIncremented(k) ==
    \A t \in Manips :
        /\ th[t].pc = "idle"
        /\ CallsOf(t, "ManipulateAtIndex") = 1
        /\ th[t].log[Len(th[t].log)].index = k

\* C7: an in-range ManipulateAtIndex holds the lock from its check to the end
\* of the callback, calls the callback once, returns true and changes only the
\* element at its index, to the callback's result; when every goroutine has
\* incremented the same element once, the element is its initial value plus
\* the number of goroutines.
C7_ManipulateExclusive ==
    /\ \A t \in Gs :
        (th[t].pc \in {"ma_check", "ma_addr", "cb_write"}) =>
            /\ mu = t
            /\ \A u \in Gs \ {t} : ~InMutation(th[u])
    /\ \A t \in Gs :
        (/\ th[t].op = "ManipulateAtIndex" /\ th[t].pc = "unlock"
         /\ InBounds(th[t].index, Len(th[t].pre))) =>
            /\ th[t].how = "return" /\ th[t].ok /\ th[t].calls = 1
            /\ Contents = [th[t].pre EXCEPT ![th[t].index + 1] =
                              Apply(th[t].f, th[t].value, @)]
            /\ len = th[t].prelen
    /\ Calls(1) >= 1 =>
        \A k \in 0..(Len(th[1].log[1].seq) - 1) :
            AllIncremented(k) =>
                Contents = [th[1].log[1].seq EXCEPT ![k + 1] = @ + NManip]

\* Every goroutine has incremented the last element of a store of two or more.
C7_Witness ==
    /\ Calls(1) >= 1
    /\ Len(Contents) >= 2
    /\ AllIncremented(Len(Contents) - 1)
    /\ \A t \in Manips : th[t].log[Len(th[t].log)].ok

\* C8: a goroutine that has left a method, by a return or by a panic, does not
\* hold the lock, and every goroutine that calls a method gets the lock and
\* leaves the method.
C8_LockReleased ==
    /\ [](\A t \in Two : th[t].pc \in {"idle", "lock", "ret"} => mu # t)
    /\ \A t \in Two : (th[t].pc = "lock") ~> (th[t].pc = "ret")

\* One goroutine has left ManipulateAtIndex by its callback's panic and the
\* other has left RemoveUnsafe by an out-of-range panic.
C8_Witness ==
    /\ th[1].pc = "ret" /\ th[1].op = "ManipulateAtIndex" /\ th[1].how = "panic"
    /\ th[2].pc = "ret" /\ th[2].op = "RemoveUnsafe" /\ th[2].how = "panic"
    /\ mu = 0

\* The values goroutine t has appended, in the order of its Append calls.
Appended(t) == [k \in 1..Len(th[t].log) |-> th[t].log[k].value]

\* C9: with only Append calls made on a new Slice, each Append puts its value
\* at index old length and adds one to the length; whenever the lock is free
\* the store is the list of appended values, Length() is their number and
\* Get(i) gives (the i-th appended value, true) for every index below it.
C9_AppendsInOrder ==
    \A t \in Gs :
        /\ (th[t].op = "Append" /\ th[t].pc = "unlock") =>
            /\ Contents = th[t].pre \o <<th[t].value>>
            /\ len = th[t].prelen + 1
            /\ th[t].prelen = Len(th[t].pre)
        /\ mu = 0 => (Contents = Appended(t) /\ len = Len(Appended(t)))
        /\ (th[t].op = "Length" /\ th[t].pc = "ret") => th[t].rv = Len(Appended(t))
        /\ (/\ th[t].op = "Get" /\ th[t].pc = "ret"
            /\ InBounds(th[t].index, Len(Appended(t)))) =>
                /\ th[t].how = "return" /\ th[t].ok
                /\ th[t].rv = Appended(t)[th[t].index + 1]

\* Get has returned the fourth appended value, which Append stored in place.
C9_Witness ==
    \E t \in Gs :
        /\ th[t].op = "Get" /\ th[t].pc = "ret" /\ th[t].ok
        /\ th[t].index = 3
        /\ Appended(t)[3] # Appended(t)[4]

\* C10: Remove(i) with 0 <= i < N on a store of N elements returns true and
\* leaves the N-1 other elements in their order, with the length N-1.
C10_RemoveShifts ==
    \A t \in Gs :
        (/\ th[t].op = "Remove" /\ th[t].pc = "unlock"
         /\ InBounds(th[t].index, Len(th[t].pre))) =>
            /\ th[t].how = "return" /\ th[t].ok
            /\ Contents = RemoveAt(th[t].pre, th[t].index)
            /\ len = Len(th[t].pre) - 1
            /\ Len(Contents) = len

\* Remove has taken an inner element out of a store whose neighbours differ.
C10_Witness ==
    \E t \in Gs :
        /\ th[t].op = "Remove" /\ th[t].pc = "unlock" /\ th[t].ok
        /\ th[t].index > 0 /\ th[t].index + 1 < Len(th[t].pre)
        /\ th[t].pre[th[t].index] # th[t].pre[th[t].index + 2]

\* C11: with one goroutine, Get(i) with i < 0 or i >= the length returns
\* (zero value, false), never the stale element an earlier Remove left beyond
\* the length, and no step of Get writes the mutex, the header, the counter
\* or the arrays.
C11_GetOutOfRange ==
    /\ [](\A t \in Solo :
            (/\ th[t].op = "Get" /\ th[t].pc = "ret"
             /\ ~InBounds(th[t].index, len)) =>
                th[t].how = "return" /\ ~th[t].ok /\ th[t].rv = Zero)
    /\ [][(\E t \in Solo : th[t].op = "Get") =>
            UNCHANGED <<mu, slice, len, heap>>]_vars

\* Get has returned false at the former last index, where the array still
\* holds the element a Remove left behind.
C11_Witness ==
    \E t \in Gs :
        /\ th[t].op = "Get" /\ th[t].pc = "ret" /\ ~th[t].ok
        /\ th[t].index = len /\ len > 0 /\ len < Cap
        /\ heap[slice.ptr][len + 1] \in Values

\* The mutators that check their index, and the program point of the check.
Checked == {"Set", "Remove", "ManipulateAtIndex"}
AtCheck(r) == r.op \in Checked /\ r.pc \in {"set_check", "rm_check", "ma_check"}

\* C12: Set, Remove and ManipulateAtIndex called with an index below 0 or at
\* or beyond the length return false with the contents and the length as they
\* were and without a call of the callback; the step that takes the failing
\* check writes neither the header, nor the counter, nor an array.
C12_CheckedMutatorsFail ==
    /\ [](\A t \in Solo :
            (/\ th[t].op \in Checked /\ th[t].pc = "unlock"
             /\ ~InBounds(th[t].index, th[t].prelen)) =>
                /\ th[t].how = "return" /\ ~th[t].ok
                /\ Contents = th[t].pre /\ len = th[t].prelen
                /\ th[t].calls = 0)
    /\ [][\A t \in Solo :
            (AtCheck(th[t]) /\ ~InBounds(th[t].index, len)) =>
                UNCHANGED <<slice, len, heap>>]_vars

\* ManipulateAtIndex has returned false for the index just beyond the length,
\* which lies within the capacity.
C12_Witness ==
    \E t \in Gs :
        /\ th[t].op = "ManipulateAtIndex" /\ th[t].pc = "unlock" /\ ~th[t].ok
        /\ th[t].index = len /\ len > 0 /\ len < Cap /\ th[t].calls = 0

\* C13: Set(i, v) with i in range returns true and changes only the element at
\* i, to v, leaving the length as it was; a Get(i) made next returns (v, true).
C13_SetThenGet ==
    \A t \in Solo :
        /\ (/\ th[t].op = "Set" /\ th[t].pc = "unlock"
            /\ InBounds(th[t].index, th[t].prelen)) =>
                /\ th[t].how = "return" /\ th[t].ok
                /\ Contents = [th[t].pre EXCEPT ![th[t].index + 1] = th[t].value]
                /\ len = th[t].prelen
        /\ (/\ Calls(t) = 2
            /\ InBounds(th[t].log[1].index, Len(th[t].log[1].pre))) =>
                /\ th[t].log[1].ok
                /\ th[t].log[2].op = "Get" /\ th[t].log[2].how = "return"
                /\ th[t].log[2].ok /\ th[t].log[2].rv = th[t].log[1].value

\* Set has replaced an inner element of a store with spare capacity by a
\* different value, and Get has returned it.
C13_Witness ==
    \E t \in Gs :
        /\ Calls(t) = 2 /\ th[t].log[2].ok
        /\ th[t].log[1].index > 0 /\ th[t].log[1].index + 1 < len /\ len < Cap
        /\ th[t].log[1].pre[th[t].log[1].index + 1] # th[t].log[1].value

\* C14: SetSlice(seq) followed by GetSlice() and Length() gives a sequence
\* equal to seq and the length of seq, for every state before and every seq,
\* the empty one included; the store is then exactly seq, with no element of
\* the earlier store left in its array.
C14_SetSliceRoundTrip ==
    \A t \in Solo :
        /\ (Calls(t) >= 1 /\ mu = 0) =>
            /\ th[t].log[1].op = "SetSlice" /\ th[t].log[1].how = "return"
            /\ Contents = th[t].log[1].seq
            /\ Cap = Len(th[t].log[1].seq)
        /\ Calls(t) >= 2 =>
            /\ th[t].log[2].op = "GetSlice" /\ th[t].log[2].how = "return"
            /\ th[t].log[2].acc = th[t].log[1].seq
        /\ Calls(t) >= 3 =>
            /\ th[t].log[3].op = "Length"
            /\ th[t].log[3].rv = Len(th[t].log[1].seq)

\* A store has been replaced by a shorter, non-empty sequence with another
\* first element, and GetSlice and Length have returned.
C14_Witness ==
    \E t \in Gs :
        /\ Calls(t) = 3
        /\ Len(th[t].log[1].seq) > 0
        /\ Len(th[t].log[1].seq) < Len(th[t].log[1].pre)
        /\ th[t].log[1].seq[1] # th[t].log[1].pre[1]

\* C15: the store never shares its array with a slice the caller holds (the
\* sequence passed to SetSlice, the sequence GetSlice returned); an assignment
\* by the caller to an element of the slice it holds leaves the contents and
\* the length of the container as they were; and no step of a method other
\* than the copy inside GetSlice changes the sequence the caller holds.
C15_NoAliasing ==
    /\ [](\A t \in Solo : th[t].hp # 0 => th[t].hp # slice.ptr)
    /\ [][\A t \in Solo :
            (th[t].pc = "idle" /\ th'[t].pc = "idle") =>
                (Contents' = Contents /\ len' = len)]_vars
    /\ [][\A t \in Solo :
            th[t].pc \notin {"idle", "gs_copy"} =>
                ElemsOf(heap', Held(th'[t])) = ElemsOf(heap, Held(th[t]))]_vars

\* The caller holds the copy GetSlice returned, of two or more elements, and
\* the container has since come to hold other elements at the same length.
C15_Witness ==
    \E t \in Gs :
        /\ th[t].pc = "idle" /\ CallsOf(t, "GetSlice") = 1 /\ th[t].hp # 0
        /\ th[t].hl >= 2 /\ th[t].hl = len /\ mu = 0
        /\ ElemsOf(heap, Held(th[t])) # Contents

\* The number of visitor calls Range makes over n elements: all of them for a
\* visitor that always continues, and up to and including index lim for the
\* visitor that returns false there.
Visits(f, lim, n) == IF f = "all" \/ lim + 1 > n THEN n ELSE lim + 1

\* C16: with one goroutine, a Range in progress has called the visitor with
\* (0, e_0), (1, e_1), ... for the indices below its position, in that order,
\* and has never called it beyond the first index where it returns false; a
\* Range that has exited returned normally after exactly Visits calls, the
\* last of them the first that returned false or the one for e_(n-1); and no
\* step of Range changes the lock, the store or the length.
C16_RangeInOrder ==
    /\ [](\A t \in Solo :
            th[t].op = "Range" /\ th[t].pc \in {"rg_next", "ret"} =>
                /\ th[t].calls = Len(th[t].acc)
                /\ th[t].calls <= Visits(th[t].f, th[t].lim, Len(Contents))
                /\ \A k \in 1..Len(th[t].acc) :
                        th[t].acc[k] = <<k - 1, Contents[k]>>
                /\ th[t].pc = "ret" =>
                        /\ th[t].how = "return"
                        /\ th[t].calls = Visits(th[t].f, th[t].lim, Len(Contents)))
    /\ [][(\E t \in Solo : th[t].op = "Range") =>
            UNCHANGED <<mu, slice, len, heap>>]_vars

\* A Range over three or more elements has exited after its visitor returned
\* false at the second element, with elements left unvisited.
C16_Witness ==
    \E t \in Gs :
        /\ th[t].op = "Range" /\ th[t].pc = "ret" /\ th[t].f = "below"
        /\ th[t].lim = 1 /\ th[t].calls = 2 /\ Len(Contents) >= 3
        /\ Contents[1] # Contents[2]

Unchecked == {"SetUnsafe", "RemoveUnsafe", "ManipulateAtIndexUnsafe"}
Outside(k, n) == k < 0 \/ k >= n

\* C17: with one goroutine, SetUnsafe, RemoveUnsafe and ManipulateAtIndexUnsafe
\* called with an index below 0 or at or beyond the length panic, with the
\* contents and the length as they were and without a call of the callback;
\* GetUnsafe with such an index panics; and no step of any of the four with
\* such an index writes the header, the counter or an array.
C17_UncheckedPanic ==
    /\ [](\A t \in Solo :
            /\ (/\ th[t].op \in Unchecked /\ th[t].pc = "unlock"
                /\ Outside(th[t].index, th[t].prelen)) =>
                    /\ th[t].how = "panic" /\ ~th[t].ok
                    /\ Contents = th[t].pre /\ len = th[t].prelen
                    /\ th[t].calls = 0
            /\ (/\ th[t].op = "GetUnsafe" /\ th[t].pc = "ret"
                /\ Outside(th[t].index, len)) =>
                    th[t].how = "panic" /\ ~th[t].ok)
    /\ [][\A t \in Solo :
            (/\ th[t].op \in Unchecked \cup {"GetUnsafe"}
             /\ th[t].pc \notin {"unlock", "ret"}
             /\ Outside(th[t].index, len)) =>
                UNCHANGED <<slice, len, heap>>]_vars

\* RemoveUnsafe has panicked for the index equal to the length, which lies
\* within the capacity an earlier Remove left spare.
C17_Witness ==
    \E t \in Gs :
        /\ th[t].op = "RemoveUnsafe" /\ th[t].pc = "unlock" /\ th[t].how = "panic"
        /\ th[t].index = len /\ len > 0 /\ len < Cap /\ Contents = th[t].pre

\* The checked method an unchecked one stands for.
Counterpart(op) ==
    CASE op = "GetUnsafe" -> "Get"
      [] op = "SetUnsafe" -> "Set"
      [] op = "RemoveUnsafe" -> "Remove"
      [] op = "ManipulateAtIndexUnsafe" -> "ManipulateAtIndex"
      [] OTHER -> op

\* The store contents, the length and the way of exit that a checked mutator,
\* called on contents c with an index in range, leaves on its success path.
\* It depends on the method only through its checked name.
Success(op, c, k, v, f) ==
    CASE op = "Set" -> <<[c EXCEPT ![k + 1] = v], Len(c), "return">>
      [] op = "Remove" -> <<RemoveAt(c, k), Len(c) - 1, "return">>
      [] op = "ManipulateAtIndex" ->
            IF f = "panic" THEN <<c, Len(c), "panic">>
            ELSE <<[c EXCEPT ![k + 1] = Apply(f, v, c[k + 1])], Len(c), "return">>

\* C18: with one goroutine and an index in range, SetUnsafe, RemoveUnsafe and
\* ManipulateAtIndexUnsafe leave the contents and the length that Set, Remove
\* and ManipulateAtIndex leave from the same contents with the same arguments,
\* and panic only where the checked method's callback panics; GetUnsafe(i) and
\* Get(i) both return the element at i.
C18_UncheckedAsChecked ==
    \A t \in Solo :
        /\ (/\ th[t].op \in Checked \cup Unchecked /\ th[t].pc = "unlock"
            /\ ~Outside(th[t].index, th[t].prelen)) =>
                /\ <<Contents, len, th[t].how>> =
                       Success(Counterpart(th[t].op), th[t].pre, th[t].index,
                               th[t].value, th[t].f)
                /\ th[t].prelen = Len(th[t].pre)
        /\ (/\ th[t].op \in {"Get", "GetUnsafe"} /\ th[t].pc = "ret"
            /\ ~Outside(th[t].index, len)) =>
                /\ th[t].how = "return"
                /\ th[t].rv = Contents[th[t].index + 1]

\* RemoveUnsafe has taken an inner element out of a store whose neighbours
\* differ, where Remove would have done the same.
C18_Witness ==
    \E t \in Gs :
        /\ th[t].op = "RemoveUnsafe" /\ th[t].pc = "unlock" /\ th[t].how = "return"
        /\ th[t].index > 0 /\ th[t].index + 1 < Len(th[t].pre)
        /\ th[t].pre[th[t].index] # th[t].pre[th[t].index + 2]
        /\ Contents = RemoveAt(th[t].pre, th[t].index)

\* C19: a Range running beside Remove, RemoveUnsafe, Append or SetSlice never
\* panics, loads every element from inside the array it iterates over, and
\* calls the visitor with the indices 0, 1, ... in order, no more of them than
\* the length it read when it began iterating.
C19_RangeNeverFaults ==
    \A t \in Readers :
        (th[t].op = "Range" /\ th[t].pc \in {"rg_next", "ret"}) =>
            /\ th[t].how # "panic"
            /\ \A k \in 1..Len(th[t].acc) : th[t].acc[k][1] = k - 1
            /\ th[t].pc = "rg_next" =>
                /\ Len(th[t].acc) <= th[t].hl
                /\ RangeMore(th[t].i, th[t].hl) => InArray(t, th[t].i)

\* A goroutine whose callback has called a lock-taking method of the Slice.
Stuck(r) == r.outer # "none" /\ r.pc = "lock"

\* A goroutine inside a lock-free call made by its callback.
InCallback(r) == r.outer # "none" /\ r.pc # "lock"

\* C20: a callback's call of a lock-taking method waits for the mutex its own
\* goroutine holds; from then on that goroutine stays where it is, the mutex
\* stays held, no goroutine waiting for the mutex ever gets it, and the store
\* and the length never change again; a lock-free call made by a callback
\* finds the mutex held by its goroutine and always leads to the return of the
\* method that invoked the callback.
C20_LockNotReentrant ==
    /\ [](\A t \in Two : th[t].outer # "none" => mu = t)
    /\ [][(\E t \in Two : Stuck(th[t])) =>
            /\ mu' = mu /\ Contents' = Contents /\ len' = len
            /\ \A u \in Two :
                /\ Stuck(th[u]) => Stuck(th'[u])
                /\ th[u].pc = "lock" => th'[u].pc = "lock"]_vars
    /\ \A t \in Two : InCallback(th[t]) ~> (th[t].pc = "ret" /\ th[t].outer = "none")

\* The callback of one goroutine's ManipulateAtIndex has called a lock-taking
\* method and waits for the mutex that goroutine holds, and the other
\* goroutine, which called a lock-taking method afterwards, waits as well.
C20_Witness ==
    /\ Stuck(th[1]) /\ th[1].outer = "ManipulateAtIndex" /\ mu = 1
    /\ th[2].pc = "lock" /\ th[2].outer = "none"
    /\ len > 0
====
